---- MODULE Spec2Model ----
(***************************************************************************)
(* Teruel itinerary planner: the session state of AppContent (active       *)
(* itinerary, loading flag, error, saved history, localStorage), the       *)
(* generation request issued by handleGenerate, and the state of the       *)
(* ItineraryView component (selected day, filters, search query, notes,    *)
(* expansion flags, map/list pane, timeouts and the highlight they clear,  *)
(* and the map the marker effect draws: markers, route polyline, framing). *)
(* Every event handler is one atomic action: React runs a handler to       *)
(* completion, then re-renders and runs the effects before the next event. *)
(* Strings whose content the code inspects are sequences of characters.    *)
(***************************************************************************)
EXTENDS Integers, Sequences, FiniteSets, TLC

VARIABLES
  itinerary,         \* AppContent: active itinerary, or Null
  loading,           \* AppContent: loading flag
  error,             \* AppContent: surfaced error, or Null
  savedItineraries,  \* AppContent: in-memory saved history
  storage,           \* localStorage[STORAGE_KEY], or Null when the key is absent
  pending,           \* generateItinerary promises not yet settled
  reqCount,          \* generation requests issued so far
  now,               \* Date.now()
  apiKey,            \* whether the build has an API key
  language,          \* LanguageContext: current language
  dayNumber,         \* ItineraryView: selected day number
  filters,           \* ItineraryView: type -> BOOLEAN
  comments,          \* ItineraryView: note key -> text
  searchQuery,       \* ItineraryView: search query
  expandedActivities,\* ItineraryView: the indices whose expansion flag is true
  isMapView,         \* ItineraryView: the map pane covers the list pane
  timers,            \* pending setTimeout callbacks
  highlight,         \* list position -> time since its highlight classes were put on
  scrolledTo,        \* list position last scrolled into view, -1 for none
  selections,        \* uses of a marker or of its 'view in list' button so far
  markersLayer,      \* map: index of a marker -> what its popup displays
  routeLayer,        \* map: points of the route polyline, <<>> for no polyline
  mapFrame,          \* map: the viewport last set, Null without a map
  distance,          \* argument of estimateTravelTime, in tenths of a kilometre
  travelTime,        \* text estimateTravelTime returned, <<>> before the call
  lastOp             \* the handler that ran last

appVars == <<itinerary, loading, error, savedItineraries, storage>>
envVars == <<pending, reqCount, now, apiKey, language>>
viewVars == <<dayNumber, filters, comments, searchQuery>>
syncVars == <<expandedActivities, isMapView, timers, highlight, scrolledTo, selections>>
mapVars == <<markersLayer, routeLayer, mapFrame>>
geoVars == <<distance, travelTime>>
vars == <<appVars, envVars, viewVars, syncVars, mapVars, geoVars, lastOp>>

----------------------------------------------------------------------------
(* Bounds of the model *)

MaxRequests == 3
MaxNow == 3
MaxNotes == 2
MaxViewNotes == 1
HistRequests == 11
HistNow == 2
MaxViewRequests == 1
MaxReplaceRequests == 2
MaxSelections == 3
MaxDistance == 1300
MaxRouteLen == 4
TimeStep == 5

(* Program constants *)

HistoryCap == 10

(* Delays of the timeouts, in tenths of a second *)
ViewSwitchDelay == 3

HighlightDelay == 20

(* Average speed of estimateTravelTime, in km/h *)
AverageSpeed == 60

(* Distances of the marker effect, in tenths of a kilometre: a leg is *)
(* backfilled beyond 0.5 km, walked under 2 km                        *)
NoiseThreshold == 5

WalkLimit == 20

----------------------------------------------------------------------------
(* Optional values *)

Null == [null |-> TRUE]

----------------------------------------------------------------------------
(* Strings *)

Includes(s, sub) ==
  \E i \in 0..(Len(s) - Len(sub)) : SubSeq(s, i + 1, i + Len(sub)) = sub

MissingKeyMessage ==
  <<"C","o","n","f","i","g","u","r","a","t","i","o","n"," ","E","r","r","o","r",":"," ","A","P",
    "I"," ","K","e","y"," ","n","o","t"," ","c","o","n","f","i","g","u","r","e","d","."," ","P",
    "l","e","a","s","e"," ","s","e","t"," ","'","V","I","T","E","_","A","P","I","_","K","E","Y",
    "'"," ","i","n"," ","y","o","u","r"," ","e","n","v","i","r","o","n","m","e","n","t"," ","v",
    "a","r","i","a","b","l","e","s",".">>

NoTextMessage ==
  <<"N","o"," ","t","e","x","t"," ","r","e","s","p","o","n","s","e"," ","g","e","n","e","r","a",
    "t","e","d">>

FetchFailedMessage ==
  <<"F","a","i","l","e","d"," ","t","o"," ","f","e","t","c","h">>

ConfigPrefix ==
  <<"C","o","n","f","i","g","u","r","a","t","i","o","n"," ","E","r","r","o","r",":"," ">>

NeedleApiKey ==
  <<"A","P","I"," ","K","e","y">>

NeedleConfigured ==
  <<"c","o","n","f","i","g","u","r","e","d">>

ErrorGenerateEs ==
  <<"L","o"," ","s","e","n","t","i","m","o","s",","," ","h","u","b","o"," ","u","n"," ","e","r",
    "r","o","r"," ","g","e","n","e","r","a","n","d","o"," ","t","u"," ","i","t","i","n","e","r",
    "a","r","i","o","."," ","P","o","r"," ","f","a","v","o","r"," ","r","e","v","i","s","a"," ",
    "t","u"," ","c","o","n","e","x","i","ó","n",".">>

ErrorGenerateEn ==
  <<"S","o","r","r","y",","," ","t","h","e","r","e"," ","w","a","s"," ","a","n"," ","e","r","r",
    "o","r"," ","g","e","n","e","r","a","t","i","n","g"," ","y","o","u","r"," ","i","t","i","n",
    "e","r","a","r","y","."," ","P","l","e","a","s","e"," ","c","h","e","c","k"," ","y","o","u",
    "r"," ","c","o","n","n","e","c","t","i","o","n",".">>

(* t('error.generate') *)
ErrorGenerate(lang) ==
  IF lang = "en" THEN ErrorGenerateEn ELSE ErrorGenerateEs

(* The message of the SyntaxError JSON.parse throws on a response text that *)
(* is not JSON; its wording depends on the JavaScript engine.               *)
V8Head ==
  <<"U","n","e","x","p","e","c","t","e","d"," ","t","o","k","e","n"," ","'">>

V8Mid ==
  <<"'",","," ","\"">>

V8Tail ==
  <<"\""," ","i","s"," ","n","o","t"," ","v","a","l","i","d"," ","J","S","O","N">>

GeckoParseMessage ==
  <<"J","S","O","N",".","p","a","r","s","e",":"," ","u","n","e","x","p","e","c","t","e","d"," ",
    "c","h","a","r","a","c","t","e","r"," ","a","t"," ","l","i","n","e"," ","1"," ","c","o","l",
    "u","m","n"," ","1"," ","o","f"," ","t","h","e"," ","J","S","O","N"," ","d","a","t","a">>

Engines == {"v8", "gecko"}

JsonParseError(engine, text) ==
  IF engine = "v8"
    THEN V8Head \o <<text[1]>> \o V8Mid \o text \o V8Tail
    ELSE GeckoParseMessage

TextOops ==
  <<"o","o","p","s">>

TextConfigured ==
  <<"c","o","n","f","i","g","u","r","e","d">>

(* Response texts of the model that are not JSON *)
MalformedTexts == {TextOops, TextConfigured}

----------------------------------------------------------------------------
(* String conversions *)

UpperChars ==
  <<"A","B","C","D","E","F","G","H","I","J","K","L","M",
    "N","O","P","Q","R","S","T","U","V","W","X","Y","Z">>

LowerChars ==
  <<"a","b","c","d","e","f","g","h","i","j","k","l","m",
    "n","o","p","q","r","s","t","u","v","w","x","y","z">>

(* String.prototype.toLowerCase *)
ToLowerCase(s) ==
  [i \in 1..Len(s) |->
     IF \E k \in 1..26 : UpperChars[k] = s[i]
       THEN LowerChars[CHOOSE k \in 1..26 : UpperChars[k] = s[i]]
       ELSE s[i]]

DigitChars ==
  <<"0","1","2","3","4","5","6","7","8","9">>

RECURSIVE NumberToString(_)
(* `${n}` for a non-negative integer n *)
NumberToString(n) ==
  IF n < 10
    THEN <<DigitChars[n + 1]>>
    ELSE NumberToString(n \div 10) \o <<DigitChars[(n % 10) + 1]>>

----------------------------------------------------------------------------
(* Geo utilities *)

Abs(x) == IF x < 0 THEN 0 - x ELSE x

(* getDistanceFromLatLonInKm, in tenths of a kilometre (rounded), for two  *)
(* points of one meridian (lon1 = lon2), where the haversine formula       *)
(* reduces to the arc R * |lat2 - lat1| * pi / 180 with R = 6371: 111.195  *)
(* km per degree. Coordinates count thousandths of a degree; every         *)
(* coordinate of the model lies on the meridian lng = 1.000.               *)
GetDistanceFromLatLonInKm(lat1, lon1, lat2, lon2) ==
  (111195 * Abs(lat2 - lat1) + 50000) \div 100000

(* Variant of EstimateTravelTime: the minutes are truncated, not rounded *)
EstimateTravelTimeTruncating(distanceKm, halfUp) ==
  IF distanceKm < AverageSpeed * 10
    THEN NumberToString(((distanceKm * 60) \div AverageSpeed) \div 10)
           \o <<" ","m","i","n">>
    ELSE LET h == distanceKm \div (AverageSpeed * 10)
             rest == ((distanceKm - h * AverageSpeed * 10) * 60) \div AverageSpeed
         IN NumberToString(h) \o <<"h"," ">> \o NumberToString(rest \div 10) \o <<"m">>

(* estimateTravelTime; distanceKm counts tenths of a kilometre. Math.round *)
(* rounds halves up. With hours = distanceKm / 60 in double arithmetic,    *)
(* hours * 60 is the distance again for every distance under 60 km, given  *)
(* in tenths, while (hours - h) * 60 may land on either side of a half:    *)
(* halfUp tells whether an exact half of the hours branch is rounded up.   *)
EstimateTravelTime(distanceKm, halfUp) ==
  IF distanceKm < AverageSpeed * 10
    THEN NumberToString((((distanceKm * 60) \div AverageSpeed) + 5) \div 10)
           \o <<" ","m","i","n">>
    ELSE LET h == distanceKm \div (AverageSpeed * 10)
             rest == ((distanceKm - h * AverageSpeed * 10) * 60) \div AverageSpeed
             m == IF rest % 10 = 5 /\ ~halfUp THEN rest \div 10 ELSE (rest + 5) \div 10
         IN NumberToString(h) \o <<"h"," ">> \o NumberToString(m) \o <<"m">>

TextWalk ==
  <<"C","a","m","i","n","a","r"," ","/"," ","W","a","l","k">>

TextCar ==
  <<"C","o","c","h","e"," ","/"," ","C","a","r"," ","/"," ","B","u","s">>

(* suggestTransportDetails; distanceKm counts tenths of a kilometre *)
SuggestTransportDetails(distanceKm) ==
  IF distanceKm < WalkLimit THEN TextWalk ELSE TextCar

----------------------------------------------------------------------------
(* Itinerary data (types.ts). The optional strings travelTime and          *)
(* transportDetails are <<>> when absent: the code tells an absent value    *)
(* and the empty string apart nowhere.                                      *)

ActivityTypes == {"VISIT", "FOOD", "LODGING", "TRAVEL"}

ActMuseo ==
  [time |-> <<"1","0",":","0","0">>, placeName |-> <<"M","u","s","e","o">>,
   description |-> <<"A","r","t","e">>, type |-> "VISIT",
   coordinates |-> [lat |-> 40000, lng |-> 1000],
   travelTime |-> <<>>, transportDetails |-> <<>>]

ActBar ==
  [time |-> <<"1","4",":","0","0">>, placeName |-> <<"B","a","r">>,
   description |-> <<"T","a","p","a","s">>, type |-> "FOOD",
   coordinates |-> Null,
   travelTime |-> <<>>, transportDetails |-> <<>>]

ActBus ==
  [time |-> <<"0","9",":","0","0">>, placeName |-> <<"B","u","s">>,
   description |-> <<"V","i","a","j","e">>, type |-> "TRAVEL",
   coordinates |-> [lat |-> 41000, lng |-> 1000],
   travelTime |-> <<>>, transportDetails |-> <<>>]

ActHotel ==
  [time |-> <<"2","0",":","0","0">>, placeName |-> <<"H","o","t","e","l">>,
   description |-> <<"C","a","m","a">>, type |-> "LODGING",
   coordinates |-> [lat |-> 39000, lng |-> 1000],
   travelTime |-> <<>>, transportDetails |-> <<>>]

ActMirador ==
  [time |-> <<"1","2",":","0","0">>, placeName |-> <<"M","i","r","a","d","o","r">>,
   description |-> <<"V","i","s","t","a">>, type |-> "VISIT",
   coordinates |-> [lat |-> 42000, lng |-> 1000],
   travelTime |-> <<>>, transportDetails |-> <<>>]

ActCafe ==
  [time |-> <<"1","7",":","0","0">>, placeName |-> <<"C","a","f","e">>,
   description |-> <<"T","e">>, type |-> "FOOD",
   coordinates |-> Null,
   travelTime |-> <<>>, transportDetails |-> <<>>]

ActTaxi ==
  [time |-> <<"2","1",":","0","0">>, placeName |-> <<"T","a","x","i">>,
   description |-> <<"C","e","n","a">>, type |-> "TRAVEL",
   coordinates |-> [lat |-> 39004, lng |-> 1000],
   travelTime |-> <<>>, transportDetails |-> <<>>]

ActPaseo ==
  [time |-> <<"2","2",":","0","0">>, placeName |-> <<"P","a","s","e","o">>,
   description |-> <<"R","i","o">>, type |-> "TRAVEL",
   coordinates |-> [lat |-> 39009, lng |-> 1000],
   travelTime |-> <<>>, transportDetails |-> <<>>]

ActTren ==
  [time |-> <<"0","8",":","0","0">>, placeName |-> <<"T","r","e","n">>,
   description |-> <<"I","d","a">>, type |-> "TRAVEL",
   coordinates |-> [lat |-> 42000, lng |-> 1000],
   travelTime |-> <<"2","h">>, transportDetails |-> <<>>]

Days12 ==
  << [dayNumber |-> 1, activities |-> <<ActMuseo, ActBar, ActHotel>>],
     [dayNumber |-> 2, activities |-> <<ActBus>>] >>

Days23 ==
  << [dayNumber |-> 2, activities |-> <<ActBus>>],
     [dayNumber |-> 3, activities |-> <<ActMuseo>>] >>

(* Four days for the map: travel legs behind near and far stops of other  *)
(* types, a leg that states its time, a day without coordinates and a day *)
(* with a single located activity                                         *)
DaysMap ==
  << [dayNumber |-> 1,
      activities |-> <<ActMuseo, ActBar, ActBus, ActHotel, ActTaxi, ActPaseo>>],
     [dayNumber |-> 2, activities |-> <<ActMuseo, ActTren>>],
     [dayNumber |-> 3, activities |-> <<ActBar, ActCafe>>],
     [dayNumber |-> 4, activities |-> <<ActBar, ActHotel>>] >>

NoComments == [present |-> FALSE, map |-> <<>>]

UserComments(m) == [present |-> TRUE, map |-> m]

(* The document JSON.parse yields for a well-formed response: no timestamp *)
(* (0 stands for an absent timestamp) and no userComments.                 *)
Generated(t, d) ==
  [title |-> t, days |-> d, timestamp |-> 0, userComments |-> NoComments]

(* Documents the generation service answers with *)
Catalogue ==
  {Generated(1, Days12), Generated(2, Days23), Generated(3, <<>>)}

NoteTexts == { <<"o","k">>, <<"n","o">> }

(* The note text of the specification of filters and search *)
ViewNoteTexts == { <<"o","k">> }

SearchQueries == { <<>>, <<"B","U">>, <<"A","R">> }

(* The filter switches operated by the specifications that combine the   *)
(* filters with saving or with the expansion flags; the specification of *)
(* filters and search operates all four                                   *)
ViewFilterKeys == {"VISIT", "FOOD"}

----------------------------------------------------------------------------
(* ItineraryView: values derived at render time *)

AllFiltersOn == [k \in ActivityTypes |-> TRUE]

(* Variant of CurrentDay: no fallback to the first day *)
CurrentDayNoFallback(itin, dn) ==
  LET hits == {i \in 1..Len(itin.days) : itin.days[i].dayNumber = dn}
  IN IF hits # {}
       THEN itin.days[CHOOSE i \in hits : \A j \in hits : i <= j]
       ELSE Null

(* days.find(d => d.dayNumber === dayNumber) || days[0]; Null stands for *)
(* undefined                                                              *)
CurrentDay(itin, dn) ==
  LET days == itin.days
      hits == {i \in 1..Len(days) : days[i].dayNumber = dn}
  IN IF hits # {}
       THEN days[CHOOSE i \in hits : \A j \in hits : i <= j]
       ELSE IF Len(days) > 0 THEN days[1] ELSE Null

(* The view renders its controls only when currentDay exists *)
ViewRendered(itin) ==
  /\ itin # Null
  /\ CurrentDay(itin, dayNumber) # Null

Activities(itin, dn) == CurrentDay(itin, dn).activities

GetActivityKey(act) == act.placeName \o <<"-">> \o act.time

DayPrefix ==
  <<"d","a","y","_">>

(* `day_${dayNumber}_${getActivityKey(act)}` *)
CommentKey(dn, act) ==
  DayPrefix \o NumberToString(dn) \o <<"_">> \o GetActivityKey(act)

(* Variant of MatchesSearch: the query is compared as typed *)
MatchesSearchCaseSensitive(act, query) ==
  \/ query = <<>>
  \/ Includes(ToLowerCase(act.placeName), query)
  \/ Includes(ToLowerCase(act.description), query)

(* matchesSearch of the marker effect *)
MatchesSearch(act, query) ==
  \/ query = <<>>
  \/ Includes(ToLowerCase(act.placeName), ToLowerCase(query))
  \/ Includes(ToLowerCase(act.description), ToLowerCase(query))

(* comments[`day_${dn}_${getActivityKey(act)}`] || '': the note the popup *)
(* and the list entry of act show while dn is the selected day number    *)
ReadComment(cm, dn, act) ==
  IF CommentKey(dn, act) \in DOMAIN cm THEN cm[CommentKey(dn, act)] ELSE <<>>

(* An activity gets a marker, and with it a popup holding the note editor, *)
(* when it has coordinates and passes the type filter and the search.      *)
HasMarker(act, flt, query) ==
  /\ act.coordinates # Null
  /\ flt[act.type]
  /\ MatchesSearch(act, query)

(* The predicate of the filter the list is rendered through *)
ListVisible(a, flt, query) ==
  LET matchesType == flt[a.type]
      searchLower == ToLowerCase(query)
      matchesSearch == \/ query = <<>>
                       \/ Includes(ToLowerCase(a.placeName), searchLower)
                       \/ Includes(ToLowerCase(a.description), searchLower)
  IN matchesType /\ matchesSearch

RECURSIVE FilterFrom(_, _, _, _)
(* The positions i..Len(acts) of acts that pass the list filter, in order *)
FilterFrom(acts, flt, query, i) ==
  IF i > Len(acts) THEN <<>>
  ELSE IF ListVisible(acts[i], flt, query)
    THEN <<i>> \o FilterFrom(acts, flt, query, i + 1)
    ELSE FilterFrom(acts, flt, query, i + 1)

(* activities.filter(...): the list entry with index idx (from 0) shows *)
(* activity VisibleList(...)[idx + 1] of the day (counted from 1)       *)
VisibleList(itin, dn, flt, query) ==
  FilterFrom(Activities(itin, dn), flt, query, 1)

(* Number of list entries (DOM nodes activity-item-0, -1, ...) a render of *)
(* itin leaves; none when the error card is rendered                      *)
NodeCountOf(itin, dn, flt, query) ==
  IF itin # Null /\ CurrentDay(itin, dn) # Null
    THEN Len(VisibleList(itin, dn, flt, query))
    ELSE 0

(* document.getElementById(`activity-item-${index}`) finds an element *)
NodeCount == NodeCountOf(itinerary, dayNumber, filters, searchQuery)

(* Highlights of the nodes that remain when the list has n entries *)
KeepNodes(hl, n) == {h \in hl : h.pos < n}

(* A timeout whose element is gone has no effect any more *)
KeepNodeTimers(tm, n) == {t \in tm : t.kind = "unhighlight" => t.index < n}

(* The list is rendered anew with n entries *)
RenderNodes(n) ==
  /\ highlight' = KeepNodes(highlight, n)
  /\ timers' = KeepNodeTimers(timers, n)

----------------------------------------------------------------------------
(* ItineraryView: the marker effect (markers, route polyline, framing) *)

(* [lat, lng] of an activity that has coordinates *)
PointOf(act) == <<act.coordinates.lat, act.coordinates.lng>>

(* allPoints: the points of the activities that have coordinates, in day order *)
AllPoints(acts) ==
  LET located == SelectSeq(acts, LAMBDA a : a.coordinates # Null)
  IN [p \in 1..Len(located) |-> PointOf(located[p])]

(* visiblePoints: the points of the activities that get a marker *)
VisiblePoints(acts, flt, query) ==
  LET shown == SelectSeq(acts, LAMBDA a : HasMarker(a, flt, query))
  IN [p \in 1..Len(shown) |-> PointOf(shown[p])]

(* lastCoords when the loop reaches position i of the day: the coordinates *)
(* of the last activity before i that has coordinates, Null for none      *)
LastCoords(acts, i) ==
  LET prev == {j \in 1..(i - 1) : acts[j].coordinates # Null}
  IN IF prev = {} THEN Null
     ELSE acts[CHOOSE j \in prev : \A k \in prev : k <= j].coordinates

(* The leg to act is long enough to be described *)
SignificantLeg(act, lastCoords) ==
  /\ act.type = "TRAVEL"
  /\ lastCoords # Null
  /\ GetDistanceFromLatLonInKm(lastCoords.lat, lastCoords.lng,
                               act.coordinates.lat, act.coordinates.lng) > NoiseThreshold

(* displayTravelTime of an activity that has coordinates *)
DisplayTravelTime(act, lastCoords, halfUp) ==
  IF SignificantLeg(act, lastCoords) /\ act.travelTime = <<>>
    THEN EstimateTravelTime(
           GetDistanceFromLatLonInKm(lastCoords.lat, lastCoords.lng,
                                     act.coordinates.lat, act.coordinates.lng), halfUp)
    ELSE act.travelTime

(* displayTransportDetails of an activity that has coordinates *)
DisplayTransportDetails(act, lastCoords) ==
  IF SignificantLeg(act, lastCoords) /\ act.transportDetails = <<>>
    THEN SuggestTransportDetails(
           GetDistanceFromLatLonInKm(lastCoords.lat, lastCoords.lng,
                                     act.coordinates.lat, act.coordinates.lng))
    ELSE act.transportDetails

(* Variant of MarkersOf: lastCoords is updated for the activities that get *)
(* a marker only, so that the leg is measured from the last marker         *)
MarkersOfVisibleOrder(acts, flt, query, halfUp) ==
  LET lastVisible(i) ==
        LET prev == {j \in 1..(i - 1) : HasMarker(acts[j], flt, query)}
        IN IF prev = {} THEN Null
           ELSE acts[CHOOSE j \in prev : \A k \in prev : k <= j].coordinates
  IN [index \in {j - 1 : j \in {k \in 1..Len(acts) : HasMarker(acts[k], flt, query)}} |->
        [travelTime |->
           DisplayTravelTime(acts[index + 1], lastVisible(index + 1), halfUp),
         transportDetails |->
           DisplayTransportDetails(acts[index + 1], lastVisible(index + 1))]]

(* The markers the loop adds, by index (from 0) in the day, each with the *)
(* travel time and transport details its popup displays                   *)
MarkersOf(acts, flt, query, halfUp) ==
  [index \in {j - 1 : j \in {k \in 1..Len(acts) : HasMarker(acts[k], flt, query)}} |->
     [travelTime |->
        DisplayTravelTime(acts[index + 1], LastCoords(acts, index + 1), halfUp),
      transportDetails |->
        DisplayTransportDetails(acts[index + 1], LastCoords(acts, index + 1))]]

(* The polyline of the route: drawn when there are two points or more *)
RouteOf(acts) ==
  IF Len(AllPoints(acts)) > 1 THEN AllPoints(acts) ELSE <<>>

(* L.latLngBounds(points) of a non-empty sequence of points *)
LatLngBounds(points) ==
  LET lats == {points[p][1] : p \in 1..Len(points)}
      lngs == {points[p][2] : p \in 1..Len(points)}
  IN [south |-> CHOOSE x \in lats : \A y \in lats : x <= y,
      north |-> CHOOSE x \in lats : \A y \in lats : x >= y,
      west |-> CHOOSE x \in lngs : \A y \in lngs : x <= y,
      east |-> CHOOSE x \in lngs : \A y \in lngs : x >= y]

(* setView([40.345, -1.106], 13) of a new map, in thousandths of a degree *)
InitialView == [center |-> <<40345, -1106>>, zoom |-> 13]

(* setView([40.345, -1.106], 9) *)
RegionalView == [center |-> <<40345, -1106>>, zoom |-> 9]

(* Variant of MapFrameOf: the map is always fitted to all points *)
MapFrameOfAllPoints(acts, flt, query, frame) ==
  IF Len(AllPoints(acts)) > 0
    THEN [bounds |-> LatLngBounds(AllPoints(acts))]
    ELSE RegionalView

(* The viewport after the effect, frame being the viewport before it *)
MapFrameOf(acts, flt, query, frame) ==
  LET hasCoordinates == \E i \in 1..Len(acts) : acts[i].coordinates # Null
  IN IF Len(VisiblePoints(acts, flt, query)) > 0
       THEN [bounds |-> LatLngBounds(VisiblePoints(acts, flt, query))]
     ELSE IF Len(AllPoints(acts)) > 0 /\ query = <<>>
       THEN [bounds |-> LatLngBounds(AllPoints(acts))]
     ELSE IF ~hasCoordinates
       THEN RegionalView
     ELSE frame

(* Variant of RenderMap: the polyline runs through the markers *)
RenderMapRouteThroughMarkers(itin, dn, flt, query, frame) ==
  IF itin # Null /\ CurrentDay(itin, dn) # Null
    THEN \E halfUp \in BOOLEAN :
           /\ markersLayer' = MarkersOf(Activities(itin, dn), flt, query, halfUp)
           /\ routeLayer' = IF Len(VisiblePoints(Activities(itin, dn), flt, query)) > 1
                               THEN VisiblePoints(Activities(itin, dn), flt, query)
                               ELSE <<>>
           /\ mapFrame' = MapFrameOf(Activities(itin, dn), flt, query, frame)
    ELSE /\ markersLayer' = <<>>
         /\ routeLayer' = <<>>
         /\ mapFrame' = Null

(* The marker effect after a render of itin: the layers are rebuilt and the *)
(* map is framed; the error card has no map                                 *)
RenderMap(itin, dn, flt, query, frame) ==
  IF itin # Null /\ CurrentDay(itin, dn) # Null
    THEN \E halfUp \in BOOLEAN :
           /\ markersLayer' = MarkersOf(Activities(itin, dn), flt, query, halfUp)
           /\ routeLayer' = RouteOf(Activities(itin, dn))
           /\ mapFrame' = MapFrameOf(Activities(itin, dn), flt, query, frame)
    ELSE /\ markersLayer' = <<>>
         /\ routeLayer' = <<>>
         /\ mapFrame' = Null

----------------------------------------------------------------------------
(* AppContent: saved history and localStorage *)

(* Array.prototype.findIndex on the timestamp; 0 stands for -1 *)
FindIndex(list, ts) ==
  LET hits == {i \in 1..Len(list) : list[i].timestamp = ts}
  IN IF hits = {} THEN 0 ELSE CHOOSE i \in hits : \A j \in hits : i <= j

(* splice(i, 1) *)
RemoveAt(list, i) ==
  SubSeq(list, 1, i - 1) \o SubSeq(list, i + 1, Len(list))

(* Variant of Slice: the cut is off by one *)
SliceOffByOne(list, n) ==
  SubSeq(list, 1, IF Len(list) < n + 1 THEN Len(list) ELSE n + 1)

(* slice(0, n) *)
Slice(list, n) ==
  SubSeq(list, 1, IF Len(list) < n THEN Len(list) ELSE n)

(* Variant of SaveItineraryToHistory: an existing entry is updated where *)
(* it stands, without being moved to the top                            *)
SaveItineraryInPlace(history, newItinerary, date) ==
  LET hits == {i \in 1..Len(history) :
                 newItinerary.timestamp # 0 /\ history[i].timestamp = newItinerary.timestamp}
  IN IF hits # {}
       THEN [saved |-> newItinerary,
             history |-> [i \in 1..Len(history) |->
                            IF i = CHOOSE k \in hits : \A j \in hits : k <= j
                              THEN newItinerary ELSE history[i]]]
       ELSE [saved |-> [newItinerary EXCEPT !.timestamp = date],
             history |-> SubSeq(<<[newItinerary EXCEPT !.timestamp = date]>> \o history,
                                1, IF Len(history) + 1 < 10 THEN Len(history) + 1 ELSE 10)]

(* Variant of SaveItineraryToHistory: a new entry is pushed at the end *)
SaveItineraryAtEnd(history, newItinerary, date) ==
  LET hits == {i \in 1..Len(history) :
                 newItinerary.timestamp # 0 /\ history[i].timestamp = newItinerary.timestamp}
      k == CHOOSE k \in hits : \A j \in hits : k <= j
  IN IF hits # {}
       THEN [saved |-> newItinerary,
             history |-> <<newItinerary>> \o SubSeq(history, 1, k - 1)
                           \o SubSeq(history, k + 1, Len(history))]
       ELSE [saved |-> [newItinerary EXCEPT !.timestamp = date],
             history |-> SubSeq(history \o <<[newItinerary EXCEPT !.timestamp = date]>>,
                                1, IF Len(history) + 1 < 10 THEN Len(history) + 1 ELSE 10)]

(* saveItineraryToHistory: the updated history and the itinerary returned *)
SaveItineraryToHistory(history, newItinerary, date) ==
  LET existingIndex ==
        IF newItinerary.timestamp # 0
          THEN FindIndex(history, newItinerary.timestamp)
          ELSE 0
  IN IF existingIndex >= 1
       THEN [saved |-> newItinerary,
             history |-> <<newItinerary>> \o RemoveAt(history, existingIndex)]
       ELSE LET itineraryWithDate == [newItinerary EXCEPT !.timestamp = date]
            IN [saved |-> itineraryWithDate,
                history |-> Slice(<<itineraryWithDate>> \o history, HistoryCap)]

(* JSON.stringify(updatedHistory) as stored under STORAGE_KEY *)
JsonStringify(list) == [kind |-> "array", items |-> list]

(* Stored values that are not a JSON array: unparseable text, a JSON object *)
ForeignStored ==
  {[kind |-> "invalid", items |-> <<>>], [kind |-> "object", items |-> <<>>]}

(* The load effect: what savedItineraries becomes at startup *)
LoadSaved(stored) ==
  IF stored = Null THEN <<>>
  ELSE IF stored.kind = "array" THEN stored.items
  ELSE <<>>

----------------------------------------------------------------------------
(* ItineraryView: mounting, unmounting and re-rendering *)

(* useState initialisers of a freshly mounted view *)
MountView(itin) ==
  /\ dayNumber' = 1
  /\ filters' = AllFiltersOn
  /\ comments' = IF itin.userComments.present THEN itin.userComments.map ELSE <<>>
  /\ searchQuery' = <<>>
  /\ expandedActivities' = {}
  /\ isMapView' = FALSE
  /\ highlight' = {}
  /\ scrolledTo' = -1
  /\ RenderMap(itin, 1, AllFiltersOn, <<>>, InitialView)
  /\ UNCHANGED <<timers, selections>>

(* No view is mounted: its state and its elements are gone *)
UnmountView ==
  /\ dayNumber' = 1
  /\ filters' = AllFiltersOn
  /\ comments' = <<>>
  /\ searchQuery' = <<>>
  /\ expandedActivities' = {}
  /\ isMapView' = FALSE
  /\ highlight' = {}
  /\ scrolledTo' = -1
  /\ markersLayer' = <<>>
  /\ routeLayer' = <<>>
  /\ mapFrame' = Null
  /\ UNCHANGED selections

(* The itinerary prop of a mounted view changed: the sync effect runs *)
RerenderView(itin) ==
  /\ comments' = IF itin.userComments.present THEN itin.userComments.map ELSE comments
  /\ RenderNodes(NodeCountOf(itin, dayNumber, filters, searchQuery))
  /\ RenderMap(itin, dayNumber, filters, searchQuery, mapFrame)
  /\ UNCHANGED <<dayNumber, filters, searchQuery, expandedActivities, isMapView,
                 scrolledTo, selections>>

(* setItinerary(itin) with itin an itinerary *)
SetItinerary(itin) ==
  /\ itinerary' = itin
  /\ IF itinerary = Null THEN MountView(itin) ELSE RerenderView(itin)

----------------------------------------------------------------------------
(* Route reorderer *)

(* distanceKm between two activities that have coordinates *)
DistanceKm(a, b) ==
  GetDistanceFromLatLonInKm(a.coordinates.lat, a.coordinates.lng,
                            b.coordinates.lat, b.coordinates.lng)

(* Distance from the last-placed activity; undefined distances count as equal *)
DistanceFrom(last, a) ==
  IF last.coordinates = Null THEN 0 ELSE DistanceKm(last, a)

(* Variant of Nearest: among the equally near the latest in input order *)
NearestTiesLast(acts, last, cands) ==
  CHOOSE i \in cands :
    \A j \in cands :
      \/ DistanceFrom(last, acts[i]) < DistanceFrom(last, acts[j])
      \/ DistanceFrom(last, acts[i]) = DistanceFrom(last, acts[j]) /\ i >= j

(* The candidate of cands nearest to last, the earliest in input order among *)
(* the equally near                                                          *)
Nearest(acts, last, cands) ==
  CHOOSE i \in cands :
    \A j \in cands :
      \/ DistanceFrom(last, acts[i]) < DistanceFrom(last, acts[j])
      \/ DistanceFrom(last, acts[i]) = DistanceFrom(last, acts[j]) /\ i <= j

RECURSIVE GreedyOrder(_, _, _)
(* The visiting order as positions of acts: placed so far, remaining to place *)
GreedyOrder(acts, placed, remaining) ==
  LET cands == {i \in remaining : acts[i].coordinates # Null}
      first == CHOOSE i \in remaining : \A j \in remaining : i <= j
      next == IF cands = {} THEN first
              ELSE Nearest(acts, acts[placed[Len(placed)]], cands)
  IN IF remaining = {} THEN placed
     ELSE GreedyOrder(acts, Append(placed, next), remaining \ {next})

(* Variant of ReorderRoute: activities without coordinates are left out *)
ReorderRouteLocatedOnly(acts) ==
  IF Len(acts) < 3 THEN acts
  ELSE LET order == GreedyOrder(acts, <<1>>,
                                {i \in 2..Len(acts) : acts[i].coordinates # Null})
       IN [p \in 1..Len(order) |-> acts[order[p]]]

(* The reordered sequence of a day's activities *)
ReorderRoute(acts) ==
  IF Len(acts) < 3 THEN acts
  ELSE LET order == GreedyOrder(acts, <<1>>, 2..Len(acts))
       IN [p \in 1..Len(acts) |-> acts[order[p]]]

(* Position, in itin.days, of the day CurrentDay picks *)
CurrentDayIndex(itin, dn) ==
  LET hits == {i \in 1..Len(itin.days) : itin.days[i].dayNumber = dn}
  IN IF hits # {} THEN CHOOSE i \in hits : \A j \in hits : i <= j ELSE 1

----------------------------------------------------------------------------
(* AppContent: generation *)

(* Messages generateItinerary rejects with *)
FailureMessages(hasKey) ==
  IF ~hasKey
    THEN {MissingKeyMessage}
    ELSE {NoTextMessage, FetchFailedMessage}
         \cup {JsonParseError(e, txt) : e \in Engines, txt \in MalformedTexts}

(* The catch block of handleGenerate *)
SurfacedError(errorMessage, lang) ==
  IF Includes(errorMessage, NeedleApiKey) \/ Includes(errorMessage, NeedleConfigured)
    THEN [message |-> ConfigPrefix \o errorMessage]
    ELSE [message |-> ErrorGenerate(lang)]

(* Variant of HandleGenerate: the submit button is not disabled while loading *)
HandleGenerateWhileLoading ==
  /\ itinerary = Null
  /\ loading' = TRUE
  /\ error' = Null
  /\ pending' = pending + 1
  /\ reqCount' = reqCount + 1
  /\ lastOp' = "submit"
  /\ UNCHANGED <<itinerary, savedItineraries, storage, now, apiKey, language,
                 dayNumber, filters, comments, searchQuery, syncVars, mapVars, geoVars>>

(* The form is on screen and its submit button enabled *)
HandleGenerate ==
  /\ itinerary = Null
  /\ ~loading
  /\ loading' = TRUE
  /\ error' = Null
  /\ pending' = pending + 1
  /\ reqCount' = reqCount + 1
  /\ lastOp' = "submit"
  /\ UNCHANGED <<itinerary, savedItineraries, storage, now, apiKey, language, viewVars,
                 syncVars, mapVars, geoVars>>

(* The awaited generateItinerary resolves with result *)
GenerateResolve(result) ==
  /\ pending > 0
  /\ apiKey
  /\ SetItinerary(result)
  /\ loading' = FALSE
  /\ pending' = pending - 1
  /\ lastOp' = "resolve"
  /\ UNCHANGED <<error, savedItineraries, storage, reqCount, now, apiKey, language,
                 geoVars>>

(* Variant of GenerateReject: loading is cleared on success only, there *)
(* being no finally block                                              *)
GenerateRejectKeepsLoading(msg) ==
  /\ pending > 0
  /\ msg \in FailureMessages(apiKey)
  /\ error' = SurfacedError(msg, language)
  /\ pending' = pending - 1
  /\ lastOp' = "reject"
  /\ UNCHANGED <<itinerary, loading, savedItineraries, storage, reqCount, now, apiKey,
                 language, viewVars, syncVars, mapVars, geoVars>>

(* The awaited generateItinerary rejects with an Error carrying msg *)
GenerateReject(msg) ==
  /\ pending > 0
  /\ msg \in FailureMessages(apiKey)
  /\ error' = SurfacedError(msg, language)
  /\ loading' = FALSE
  /\ pending' = pending - 1
  /\ lastOp' = "reject"
  /\ UNCHANGED <<itinerary, savedItineraries, storage, reqCount, now, apiKey, language,
                 viewVars, syncVars, mapVars, geoVars>>

----------------------------------------------------------------------------
(* AppContent: saved history, reset *)

(* Variant of HandleSave: the itinerary handed in stays the active one, *)
(* not the saved version that carries the timestamp                    *)
HandleSaveKeepingArgument(updatedItinerary) ==
  LET r == SaveItineraryToHistory(savedItineraries, updatedItinerary, now)
  IN /\ savedItineraries' = r.history
     /\ storage' = JsonStringify(r.history)
     /\ SetItinerary(updatedItinerary)
     /\ UNCHANGED <<loading, error, envVars, geoVars>>

(* handleSave(updatedItinerary) *)
HandleSave(updatedItinerary) ==
  LET r == SaveItineraryToHistory(savedItineraries, updatedItinerary, now)
  IN /\ savedItineraries' = r.history
     /\ storage' = JsonStringify(r.history)
     /\ SetItinerary(r.saved)
     /\ UNCHANGED <<loading, error, envVars, geoVars>>

(* A card of the saved list is clicked *)
OpenSaved(idx) ==
  /\ itinerary = Null
  /\ idx \in 1..Len(savedItineraries)
  /\ SetItinerary(savedItineraries[idx])
  /\ lastOp' = "open"
  /\ UNCHANGED <<loading, error, savedItineraries, storage, envVars, geoVars>>

(* Variant of ClearHistory: the stored key is not removed *)
ClearHistoryKeepsStore(confirmed) ==
  /\ itinerary = Null
  /\ Len(savedItineraries) > 0
  /\ IF confirmed
       THEN /\ savedItineraries' = <<>>
            /\ lastOp' = "clear"
       ELSE /\ UNCHANGED savedItineraries
            /\ lastOp' = "clearDeclined"
  /\ UNCHANGED <<itinerary, loading, error, storage, pending, reqCount, now, apiKey,
                 language, dayNumber, filters, comments, searchQuery, syncVars, mapVars, geoVars>>

(* clearHistory; confirmed is the answer to window.confirm *)
ClearHistory(confirmed) ==
  /\ itinerary = Null
  /\ Len(savedItineraries) > 0
  /\ IF confirmed
       THEN /\ savedItineraries' = <<>>
            /\ storage' = Null
            /\ lastOp' = "clear"
       ELSE /\ UNCHANGED <<savedItineraries, storage>>
            /\ lastOp' = "clearDeclined"
  /\ UNCHANGED <<itinerary, loading, error, envVars, viewVars, syncVars, mapVars, geoVars>>

HandleReset ==
  /\ itinerary # Null
  /\ itinerary' = Null
  /\ error' = Null
  /\ UnmountView
  /\ timers' = {[t EXCEPT !.stale = TRUE] : t \in {u \in timers : u.kind = "click"}}
  /\ lastOp' = "reset"
  /\ UNCHANGED <<loading, savedItineraries, storage, envVars, geoVars>>

(* The page is loaded anew: state is initial, the load effect reads storage *)
Reload ==
  /\ itinerary' = Null
  /\ loading' = FALSE
  /\ error' = Null
  /\ savedItineraries' = LoadSaved(storage)
  /\ pending' = 0
  /\ language' = "es"
  /\ UnmountView
  /\ timers' = {}
  /\ lastOp' = "reload"
  /\ UNCHANGED <<storage, reqCount, now, apiKey, geoVars>>

(* Date.now() advances *)
Tick ==
  /\ now' = now + 1
  /\ lastOp' = "tick"
  /\ UNCHANGED <<appVars, pending, reqCount, apiKey, language, viewVars, syncVars,
                 mapVars, geoVars>>

----------------------------------------------------------------------------
(* ItineraryView: handlers *)

(* Variant of SaveButton: the button is also there in the error view *)
SaveButtonInErrorView ==
  /\ itinerary # Null
  /\ HandleSave([itinerary EXCEPT !.userComments = UserComments(comments)])
  /\ lastOp' = "save"

(* The save button of the top bar *)
SaveButton ==
  /\ ViewRendered(itinerary)
  /\ HandleSave([itinerary EXCEPT !.userComments = UserComments(comments)])
  /\ lastOp' = "save"

(* Variant of SaveComment: the note is kept in the view and not saved *)
SaveCommentWithoutSave(act, comment) ==
  /\ ViewRendered(itinerary)
  /\ \E i \in 1..Len(Activities(itinerary, dayNumber)) :
       Activities(itinerary, dayNumber)[i] = act
  /\ HasMarker(act, filters, searchQuery)
  /\ comments' = (CommentKey(dayNumber, act) :> comment) @@ comments
  /\ lastOp' = "note"
  /\ UNCHANGED <<appVars, envVars, dayNumber, filters, searchQuery, syncVars, mapVars, geoVars>>

(* Variant of SaveComment: the new map holds the new note only *)
SaveCommentOnlyNew(act, comment) ==
  /\ ViewRendered(itinerary)
  /\ \E i \in 1..Len(Activities(itinerary, dayNumber)) :
       Activities(itinerary, dayNumber)[i] = act
  /\ HasMarker(act, filters, searchQuery)
  /\ HandleSave([itinerary EXCEPT !.userComments =
                   UserComments(CommentKey(dayNumber, act) :> comment)])
  /\ lastOp' = "note"

(* saveComment(act, comment) from the note editor of act's popup *)
SaveComment(act, comment) ==
  /\ ViewRendered(itinerary)
  /\ \E i \in 1..Len(Activities(itinerary, dayNumber)) :
       Activities(itinerary, dayNumber)[i] = act
  /\ HasMarker(act, filters, searchQuery)
  /\ LET key == CommentKey(dayNumber, act)
         newComments == (key :> comment) @@ comments
     IN HandleSave([itinerary EXCEPT !.userComments = UserComments(newComments)])
  /\ lastOp' = "note"

(* Variant of SelectDay: the expansion flags outlive the change of day *)
SelectDayKeepingExpansion(d) ==
  /\ ViewRendered(itinerary)
  /\ \E i \in 1..Len(itinerary.days) : itinerary.days[i].dayNumber = d
  /\ dayNumber' = d
  /\ searchQuery' = IF d # dayNumber THEN <<>> ELSE searchQuery
  /\ RenderNodes(NodeCountOf(itinerary, d, filters, searchQuery'))
  /\ RenderMap(itinerary, d, filters, searchQuery', mapFrame)
  /\ lastOp' = "day"
  /\ UNCHANGED <<appVars, envVars, filters, comments, expandedActivities, isMapView,
                 scrolledTo, selections, geoVars>>

(* A button of the day navigation, and the day-change effect *)
SelectDay(d) ==
  /\ ViewRendered(itinerary)
  /\ \E i \in 1..Len(itinerary.days) : itinerary.days[i].dayNumber = d
  /\ dayNumber' = d
  /\ searchQuery' = IF d # dayNumber THEN <<>> ELSE searchQuery
  /\ expandedActivities' = IF d # dayNumber THEN {} ELSE expandedActivities
  /\ RenderNodes(NodeCountOf(itinerary, d, filters, searchQuery'))
  /\ RenderMap(itinerary, d, filters, searchQuery', mapFrame)
  /\ lastOp' = "day"
  /\ UNCHANGED <<appVars, envVars, filters, comments, isMapView, scrolledTo, selections,
                 geoVars>>

(* A filter button of the list pane *)
ToggleFilter(k) ==
  /\ ViewRendered(itinerary)
  /\ ~isMapView
  /\ filters' = [filters EXCEPT ![k] = ~filters[k]]
  /\ RenderNodes(NodeCountOf(itinerary, dayNumber, filters', searchQuery))
  /\ RenderMap(itinerary, dayNumber, filters', searchQuery, mapFrame)
  /\ lastOp' = "filter"
  /\ UNCHANGED <<appVars, envVars, dayNumber, comments, searchQuery, expandedActivities,
                 isMapView, scrolledTo, selections, geoVars>>

(* Variant of SetSearchQuery: the activities that do not match are removed *)
(* from the day                                                            *)
SetSearchQueryPruningDay(q) ==
  /\ ViewRendered(itinerary)
  /\ ~isMapView
  /\ searchQuery' = q
  /\ itinerary' =
       [itinerary EXCEPT !.days =
          [i \in 1..Len(itinerary.days) |->
             IF itinerary.days[i] = CurrentDay(itinerary, dayNumber)
               THEN [itinerary.days[i] EXCEPT !.activities =
                       SelectSeq(@, LAMBDA a : ListVisible(a, filters, q))]
               ELSE itinerary.days[i]]]
  /\ RenderNodes(NodeCountOf(itinerary, dayNumber, filters, q))
  /\ RenderMap(itinerary', dayNumber, filters, q, mapFrame)
  /\ lastOp' = "search"
  /\ UNCHANGED <<loading, error, savedItineraries, storage, envVars, dayNumber, filters,
                 comments, expandedActivities, isMapView, scrolledTo, selections, geoVars>>

(* The input of the search bar, or its clear button (q = <<>>) *)
SetSearchQuery(q) ==
  /\ ViewRendered(itinerary)
  /\ ~isMapView
  /\ searchQuery' = q
  /\ RenderNodes(NodeCountOf(itinerary, dayNumber, filters, q))
  /\ RenderMap(itinerary, dayNumber, filters, q, mapFrame)
  /\ lastOp' = "search"
  /\ UNCHANGED <<appVars, envVars, dayNumber, filters, comments, expandedActivities,
                 isMapView, scrolledTo, selections, geoVars>>

(* toggleExpansion(index): a click on the list entry with that index *)
ToggleExpansion(index) ==
  /\ ViewRendered(itinerary)
  /\ ~isMapView
  /\ index \in 0..(NodeCount - 1)
  /\ expandedActivities' = IF index \in expandedActivities
                             THEN expandedActivities \ {index}
                             ELSE expandedActivities \cup {index}
  /\ lastOp' = "expand"
  /\ UNCHANGED <<appVars, envVars, viewVars, isMapView, timers, highlight, scrolledTo,
                 selections, mapVars, geoVars>>

(* collapseAll *)
CollapseAll ==
  /\ ViewRendered(itinerary)
  /\ ~isMapView
  /\ expandedActivities' = {}
  /\ lastOp' = "collapse"
  /\ UNCHANGED <<appVars, envVars, viewVars, isMapView, timers, highlight, scrolledTo,
                 selections, mapVars, geoVars>>

(* The floating button that swaps the list pane and the map pane *)
ToggleMapView ==
  /\ ViewRendered(itinerary)
  /\ isMapView' = ~isMapView
  /\ lastOp' = "pane"
  /\ UNCHANGED <<appVars, envVars, viewVars, expandedActivities, timers, highlight,
                 scrolledTo, selections, mapVars, geoVars>>

(* onMarkerClick(index). live: the component the callback belongs to is  *)
(* still mounted, so that its state setter has an effect. rest: the      *)
(* timeouts pending besides the one this call sets.                      *)
OnMarkerClick(index, live, rest) ==
  /\ expandedActivities' = IF live THEN expandedActivities \cup {index}
                                   ELSE expandedActivities
  /\ IF index < NodeCount
       THEN /\ scrolledTo' = index
            /\ highlight' = IF \E h \in highlight : h.pos = index
                              THEN highlight
                              ELSE highlight \cup {[pos |-> index, age |-> 0]}
            /\ timers' = rest \cup {[kind |-> "unhighlight", index |-> index,
                                      remaining |-> HighlightDelay, stale |-> FALSE]}
       ELSE /\ timers' = rest
            /\ UNCHANGED <<highlight, scrolledTo>>

(* The marker of the activity with that index (from 0) is clicked: the *)
(* handler is empty, the map library opens the popup                   *)
MarkerClick(index) ==
  /\ ViewRendered(itinerary)
  /\ index \in 0..(Len(Activities(itinerary, dayNumber)) - 1)
  /\ HasMarker(Activities(itinerary, dayNumber)[index + 1], filters, searchQuery)
  /\ selections' = selections + 1
  /\ lastOp' = "marker"
  /\ UNCHANGED <<appVars, envVars, viewVars, expandedActivities, isMapView, timers,
                 highlight, scrolledTo, mapVars, geoVars>>

(* The 'view in list' button in the popup of the marker with that index *)
ViewInList(index) ==
  /\ ViewRendered(itinerary)
  /\ index \in 0..(Len(Activities(itinerary, dayNumber)) - 1)
  /\ HasMarker(Activities(itinerary, dayNumber)[index + 1], filters, searchQuery)
  /\ IF isMapView
       THEN /\ isMapView' = FALSE
            /\ timers' = timers \cup {[kind |-> "click", index |-> index,
                                        remaining |-> ViewSwitchDelay, stale |-> FALSE]}
            /\ UNCHANGED <<expandedActivities, highlight, scrolledTo>>
       ELSE /\ OnMarkerClick(index, TRUE, timers)
            /\ UNCHANGED isMapView
  /\ selections' = selections + 1
  /\ lastOp' = "viewInList"
  /\ UNCHANGED <<appVars, envVars, viewVars, mapVars, geoVars>>

(* Time until the next timeout is due *)
MinRemaining ==
  CHOOSE r \in {t.remaining : t \in timers} : \A t \in timers : r <= t.remaining

(* d tenths of a second pass without any timeout becoming overdue *)
Elapse(d) ==
  /\ timers # {}
  /\ d \in 1..MinRemaining
  /\ timers' = {[t EXCEPT !.remaining = @ - d] : t \in timers}
  /\ highlight' = {[h EXCEPT !.age = @ + d] : h \in highlight}
  /\ lastOp' = "elapse"
  /\ UNCHANGED <<appVars, envVars, viewVars, expandedActivities, isMapView, scrolledTo,
                 selections, mapVars, geoVars>>

(* The callback of a due timeout runs *)
TimerFire(t) ==
  /\ t \in timers
  /\ t.remaining = 0
  /\ IF t.kind = "click"
       THEN /\ OnMarkerClick(t.index, ~t.stale, timers \ {t})
            /\ lastOp' = "delayedClick"
       ELSE /\ highlight' = {h \in highlight : h.pos # t.index}
            /\ timers' = timers \ {t}
            /\ lastOp' = "unhighlight"
            /\ UNCHANGED <<expandedActivities, scrolledTo>>
  /\ UNCHANGED <<appVars, envVars, viewVars, isMapView, selections, mapVars, geoVars>>

(* The route of the day on display is reordered on demand; the new order *)
(* replaces the day's activities in the active itinerary                 *)
OptimizeRoute ==
  /\ ViewRendered(itinerary)
  /\ LET cur == CurrentDayIndex(itinerary, dayNumber)
         reordered ==
           [itinerary EXCEPT !.days =
              [i \in 1..Len(itinerary.days) |->
                 IF i = cur
                   THEN [itinerary.days[i] EXCEPT !.activities = ReorderRoute(@)]
                   ELSE itinerary.days[i]]]
     IN /\ itinerary' = reordered
        /\ RerenderView(reordered)
  /\ lastOp' = "reorder"
  /\ UNCHANGED <<loading, error, savedItineraries, storage, envVars, geoVars>>

(* estimateTravelTime is applied to the distance *)
EstimateStep ==
  /\ travelTime = <<>>
  /\ \E halfUp \in BOOLEAN : travelTime' = EstimateTravelTime(distance, halfUp)
  /\ lastOp' = "estimate"
  /\ UNCHANGED <<appVars, envVars, viewVars, syncVars, mapVars, distance>>

----------------------------------------------------------------------------
(* Specifications *)

(* The state after the first render and the load effect *)
Init ==
  /\ itinerary = Null
  /\ loading = FALSE
  /\ error = Null
  /\ storage \in {Null} \cup ForeignStored
  /\ savedItineraries = LoadSaved(storage)
  /\ pending = 0
  /\ reqCount = 0
  /\ now = 1
  /\ apiKey \in BOOLEAN
  /\ language \in {"es", "en"}
  /\ dayNumber = 1
  /\ filters = AllFiltersOn
  /\ comments = <<>>
  /\ searchQuery = <<>>
  /\ expandedActivities = {}
  /\ isMapView = FALSE
  /\ timers = {}
  /\ highlight = {}
  /\ scrolledTo = -1
  /\ selections = 0
  /\ markersLayer = <<>>
  /\ routeLayer = <<>>
  /\ mapFrame = Null
  /\ distance = 0
  /\ travelTime = <<>>
  /\ lastOp = "init"

CatalogueActivities == {ActMuseo, ActBar, ActHotel, ActBus}

CatalogueDayNumbers == {1, 2, 3}

(* The session: generation, saved history, reset, page reload *)
Next ==
  \/ reqCount < MaxRequests /\ HandleGenerate
  \/ \E result \in Catalogue : GenerateResolve(result)
  \/ \E msg \in FailureMessages(apiKey) : GenerateReject(msg)
  \/ \E idx \in 1..Len(savedItineraries) : OpenSaved(idx)
  \/ \E confirmed \in BOOLEAN : ClearHistory(confirmed)
  \/ HandleReset
  \/ Reload
  \/ now < MaxNow /\ Tick
  \/ SaveButton

Spec == Init /\ [][Next]_vars

(* The itinerary view: day navigation, filters, search and notes *)
InitView ==
  /\ Init
  /\ apiKey
  /\ language = "es"
  /\ storage = Null

NextView ==
  \/ reqCount < MaxViewRequests /\ HandleGenerate
  \/ \E result \in Catalogue : GenerateResolve(result)
  \/ \E idx \in 1..Len(savedItineraries) : OpenSaved(idx)
  \/ HandleReset
  \/ SaveButton
  \/ \E act \in CatalogueActivities, txt \in ViewNoteTexts :
       /\ Cardinality(DOMAIN comments \cup {CommentKey(dayNumber, act)}) <= MaxViewNotes
       /\ SaveComment(act, txt)
  \/ \E d \in CatalogueDayNumbers : SelectDay(d)
  \/ \E k \in ViewFilterKeys : ToggleFilter(k)
  \/ \E q \in SearchQueries : SetSearchQuery(q)

SpecView == InitView /\ [][NextView]_vars

(* The visible set of the itinerary view: days, filters and search *)
NextFilter ==
  \/ reqCount < MaxViewRequests /\ HandleGenerate
  \/ \E result \in Catalogue : GenerateResolve(result)
  \/ HandleReset
  \/ \E d \in CatalogueDayNumbers : SelectDay(d)
  \/ \E k \in ActivityTypes : ToggleFilter(k)
  \/ \E q \in SearchQueries : SetSearchQuery(q)

SpecFilter == InitView /\ [][NextFilter]_vars

(* Indices (from 0) of the activities of a day of the catalogue *)
ActivityIndices == {0, 1, 2}

(* Map and list of the itinerary view: markers, expansion flags, filters *)
(* and search; time passes up to the next timeout                        *)
NextSync ==
  \/ reqCount < MaxViewRequests /\ HandleGenerate
  \/ \E result \in Catalogue : GenerateResolve(result)
  \/ HandleReset
  \/ \E d \in CatalogueDayNumbers : SelectDay(d)
  \/ \E k \in ViewFilterKeys : ToggleFilter(k)
  \/ \E q \in SearchQueries : SetSearchQuery(q)
  \/ \E index \in ActivityIndices : ToggleExpansion(index)
  \/ CollapseAll
  \/ \E index \in ActivityIndices : selections < MaxSelections /\ MarkerClick(index)
  \/ \E index \in ActivityIndices : selections < MaxSelections /\ ViewInList(index)
  \/ timers # {} /\ Elapse(MinRemaining)
  \/ \E t \in timers : TimerFire(t)

SpecSync == InitView /\ [][NextSync]_vars

(* The 'view in list' button over time: the panes, the delayed call, the *)
(* highlight and its timeouts; time passes in steps of TimeStep tenths   *)
(* of a second or up to the next timeout                                 *)
NextTimer ==
  \/ reqCount < MaxViewRequests /\ HandleGenerate
  \/ GenerateResolve(Generated(1, Days12))
  \/ HandleReset
  \/ ToggleMapView
  \/ \E index \in ActivityIndices : selections < MaxSelections /\ ViewInList(index)
  \/ timers # {} /\ \E d \in {TimeStep, MinRemaining} : Elapse(d)
  \/ \E t \in timers : TimerFire(t)

SpecTimer == InitView /\ [][NextTimer]_vars

(* estimateTravelTime applied to one distance of 0 .. MaxDistance tenths *)
(* of a kilometre                                                        *)
InitGeo ==
  /\ itinerary = Null
  /\ loading = FALSE
  /\ error = Null
  /\ storage = Null
  /\ savedItineraries = <<>>
  /\ pending = 0
  /\ reqCount = 0
  /\ now = 1
  /\ apiKey = TRUE
  /\ language = "es"
  /\ dayNumber = 1
  /\ filters = AllFiltersOn
  /\ comments = <<>>
  /\ searchQuery = <<>>
  /\ expandedActivities = {}
  /\ isMapView = FALSE
  /\ timers = {}
  /\ highlight = {}
  /\ scrolledTo = -1
  /\ selections = 0
  /\ markersLayer = <<>>
  /\ routeLayer = <<>>
  /\ mapFrame = Null
  /\ distance \in 0..MaxDistance
  /\ travelTime = <<>>
  /\ lastOp = "init"

NextGeo == EstimateStep

SpecGeo == InitGeo /\ [][NextGeo]_vars

(* Activities a day to reorder is made of *)
RoutePool == {ActMuseo, ActBus, ActHotel, ActMirador, ActBar, ActCafe}

(* Days to reorder: up to MaxRouteLen different activities in any order *)
RouteInputs ==
  {acts \in UNION {[1..n -> RoutePool] : n \in 0..MaxRouteLen} :
     \A i, j \in 1..Len(acts) : acts[i] = acts[j] => i = j}

(* The second day of the itineraries to reorder *)
RouteDayTwo == <<ActMuseo, ActBar, ActMirador, ActBus, ActHotel>>

(* An itinerary of two days is on display, the first day any of RouteInputs *)
InitRoute ==
  /\ \E acts \in RouteInputs :
       /\ itinerary = Generated(1, << [dayNumber |-> 1, activities |-> acts],
                                      [dayNumber |-> 2, activities |-> RouteDayTwo] >>)
       /\ markersLayer = MarkersOf(acts, AllFiltersOn, <<>>, TRUE)
       /\ routeLayer = RouteOf(acts)
       /\ mapFrame = MapFrameOf(acts, AllFiltersOn, <<>>, InitialView)
  /\ loading = FALSE
  /\ error = Null
  /\ storage = Null
  /\ savedItineraries = <<>>
  /\ pending = 0
  /\ reqCount = 1
  /\ now = 1
  /\ apiKey = TRUE
  /\ language = "es"
  /\ dayNumber = 1
  /\ filters = AllFiltersOn
  /\ comments = <<>>
  /\ searchQuery = <<>>
  /\ expandedActivities = {}
  /\ isMapView = FALSE
  /\ timers = {}
  /\ highlight = {}
  /\ scrolledTo = -1
  /\ selections = 0
  /\ distance = 0
  /\ travelTime = <<>>
  /\ lastOp = "resolve"

NextRoute ==
  \/ OptimizeRoute
  \/ \E d \in {1, 2} : SelectDay(d)

SpecRoute == InitRoute /\ [][NextRoute]_vars

(* The notes of the itinerary view: saving notes, switching days, saving, *)
(* leaving the view and opening a saved itinerary again                   *)
NextNotes ==
  \/ reqCount < MaxViewRequests /\ HandleGenerate
  \/ \E result \in Catalogue : GenerateResolve(result)
  \/ \E idx \in 1..Len(savedItineraries) : OpenSaved(idx)
  \/ HandleReset
  \/ SaveButton
  \/ \E act \in CatalogueActivities, txt \in NoteTexts :
       /\ Cardinality(DOMAIN comments \cup {CommentKey(dayNumber, act)}) <= MaxNotes
       /\ SaveComment(act, txt)
  \/ \E d \in CatalogueDayNumbers : SelectDay(d)

SpecNotes == InitView /\ [][NextNotes]_vars

(* Day numbers of the itinerary of the map specification *)
MapDayNumbers == {1, 2, 3, 4}

(* The map of the itinerary view: the route polyline, the markers with *)
(* their travel legs and the framing, under days, filters and search   *)
NextMap ==
  \/ reqCount < MaxViewRequests /\ HandleGenerate
  \/ GenerateResolve(Generated(1, DaysMap))
  \/ HandleReset
  \/ \E d \in MapDayNumbers : SelectDay(d)
  \/ \E k \in ActivityTypes : ToggleFilter(k)
  \/ \E q \in SearchQueries : SetSearchQuery(q)

SpecMap == InitView /\ [][NextMap]_vars

(* Notes across itineraries: the n-th request is answered with a document *)
(* titled n; notes are saved, the view is left, and a saved itinerary may  *)
(* be opened while a request is outstanding                                *)
NextReplace ==
  \/ reqCount < MaxReplaceRequests /\ HandleGenerate
  \/ GenerateResolve(Generated(reqCount, Days12))
  \/ \E idx \in 1..Len(savedItineraries) : OpenSaved(idx)
  \/ HandleReset
  \/ SaveButton
  \/ \E act \in CatalogueActivities, txt \in ViewNoteTexts :
       /\ Cardinality(DOMAIN comments \cup {CommentKey(dayNumber, act)}) <= MaxViewNotes
       /\ SaveComment(act, txt)
  \/ now < HistNow /\ Tick

SpecReplace == InitView /\ [][NextReplace]_vars

(* The outstanding request settles and handleGenerate runs on *)
Settle ==
  \/ \E result \in Catalogue : GenerateResolve(result)
  \/ \E msg \in FailureMessages(apiKey) : GenerateReject(msg)

(* Requests that settle: generation while the user opens saved itineraries, *)
(* saves and resets; an outstanding request is never left pending forever   *)
NextSettle ==
  \/ reqCount < MaxReplaceRequests /\ HandleGenerate
  \/ Settle
  \/ \E idx \in 1..Len(savedItineraries) : OpenSaved(idx)
  \/ HandleReset
  \/ SaveButton
  \/ now < HistNow /\ Tick

SpecSettle == Init /\ [][NextSettle]_vars /\ WF_vars(Settle)

(* Saving one generated itinerary after another: the n-th request is *)
(* answered with a document of its own, titled n; the oldest entry   *)
(* of a full history may be reopened                                 *)
NextHist ==
  \/ reqCount < HistRequests /\ HandleGenerate
  \/ GenerateResolve(Generated(reqCount, Days12))
  \/ SaveButton
  \/ HandleReset
  \/ OpenSaved(HistoryCap)
  \/ now < HistNow /\ Tick

SpecHist == InitView /\ [][NextHist]_vars

----------------------------------------------------------------------------
(* Properties *)

(* A step of the save button on an itinerary that carries no timestamp *)
FreshSaveStep ==
  /\ lastOp' = "save"
  /\ itinerary # Null
  /\ itinerary.timestamp = 0

(* A step of the save button on an itinerary whose timestamp is in the history *)
UpdateSaveStep ==
  /\ lastOp' = "save"
  /\ itinerary # Null
  /\ itinerary.timestamp # 0
  /\ \E k \in 1..Len(savedItineraries) :
       savedItineraries[k].timestamp = itinerary.timestamp

(* The itinerary the save button hands to handleSave *)
ButtonArgument == [itinerary EXCEPT !.userComments = UserComments(comments)]

(* C1: the saved history never holds more than 10 entries, and saving a new *)
(* itinerary into a full history leaves 10 entries: the new one first, the  *)
(* former entries behind it in their order, the oldest (last) one evicted.  *)
(* Saving documents 1..11 in sequence thus leaves 11,10,...,2.              *)
C1_HistoryCapped ==
  /\ [](Len(savedItineraries) <= 10)
  /\ [][(FreshSaveStep /\ Len(savedItineraries) = 10) =>
          /\ Len(savedItineraries') = 10
          /\ savedItineraries'[1].title = itinerary.title
          /\ \A i \in 2..10 : savedItineraries'[i] = savedItineraries[i - 1]]_vars

(* Documents 1..11 were saved one after the other: 11,10,...,2 are kept *)
C1_Witness ==
  /\ lastOp = "save"
  /\ Len(savedItineraries) = 10
  /\ \A i \in 1..10 : savedItineraries[i].title = 12 - i

(* C2: saving an itinerary whose timestamp equals that of a history entry *)
(* replaces (the first such) entry by the saved itinerary, moves it to    *)
(* the front, keeps the order of all other entries and the length.        *)
C2_UpdateMovesToFront ==
  [][UpdateSaveStep =>
       \E k \in 1..Len(savedItineraries) :
         /\ savedItineraries[k].timestamp = itinerary.timestamp
         /\ \A j \in 1..(k - 1) : savedItineraries[j].timestamp # itinerary.timestamp
         /\ Len(savedItineraries') = Len(savedItineraries)
         /\ savedItineraries'[1] = ButtonArgument
         /\ \A j \in 1..(k - 1) : savedItineraries'[j + 1] = savedItineraries[j]
         /\ \A j \in (k + 1)..Len(savedItineraries) :
              savedItineraries'[j] = savedItineraries[j]]_vars

(* An update has moved an entry older than the second one to the front *)
C2_Witness ==
  /\ lastOp = "save"
  /\ Len(savedItineraries) >= 2
  /\ savedItineraries[1].timestamp < savedItineraries[2].timestamp

(* C3: saving an itinerary without timestamp gives it the time of the save *)
(* as timestamp and puts it at the front, the former entries following in  *)
(* their order.                                                            *)
C3_FreshSavePrepends ==
  [][FreshSaveStep =>
       /\ now # 0
       /\ Len(savedItineraries') >= 1
       /\ savedItineraries'[1] = [ButtonArgument EXCEPT !.timestamp = now]
       /\ itinerary' = savedItineraries'[1]
       /\ Len(savedItineraries') <= Len(savedItineraries) + 1
       /\ Len(savedItineraries) < 10 => Len(savedItineraries') = Len(savedItineraries) + 1
       /\ \A i \in 2..Len(savedItineraries') :
            savedItineraries'[i] = savedItineraries[i - 1]]_vars

(* A new entry stamped with the current time stands before an older one *)
C3_Witness ==
  /\ lastOp = "save"
  /\ Len(savedItineraries) >= 2
  /\ savedItineraries[1].timestamp = now
  /\ savedItineraries[2].timestamp < now

(* C4: after every save and every confirmed clear the stored list equals *)
(* the in-memory history (no key meaning the empty list); a declined     *)
(* clear changes neither.                                                *)
C4_StoreMirrorsHistory ==
  [][/\ lastOp' \in {"save", "note", "clear"} =>
          \/ storage' = Null /\ savedItineraries' = <<>>
          \/ /\ storage' # Null
             /\ storage'.kind = "array"
             /\ storage'.items = savedItineraries'
     /\ lastOp' = "clearDeclined" => UNCHANGED <<storage, savedItineraries>>]_vars

(* A confirmed clear emptied a history that had been saved to *)
C4_Witness ==
  /\ lastOp = "clear"
  /\ reqCount > 0
  /\ storage = Null
  /\ savedItineraries = <<>>

Forming == itinerary = Null /\ ~loading

Generating == pending > 0 /\ loading

Viewing == itinerary # Null

(* C5: the session is always in exactly one of Forming, Generating and   *)
(* Viewing; submit leads from Forming to Generating, success from        *)
(* Generating to Viewing, failure from Generating to Forming with an     *)
(* error and the itinerary and history untouched, reset from Viewing to  *)
(* Forming.                                                              *)
C5_ThreeStates ==
  /\ [](Cardinality({s \in {"F", "G", "V"} :
                       \/ s = "F" /\ Forming
                       \/ s = "G" /\ Generating
                       \/ s = "V" /\ Viewing}) = 1)
  /\ [][/\ lastOp' = "submit" => Forming /\ Generating'
        /\ lastOp' = "resolve" => Generating /\ Viewing'
        /\ lastOp' = "reject" =>
             /\ Generating /\ Forming'
             /\ error' # Null
             /\ UNCHANGED <<itinerary, savedItineraries>>
        /\ lastOp' = "reset" => Viewing /\ Forming']_vars

(* C6: the result of a request that was outstanding when the user reset the *)
(* session is discarded on arrival: it does not become the active itinerary *)
C6_ResultDiscardedAfterReset ==
  [][(lastOp = "reset" /\ pending > 0 /\ lastOp' = "resolve") =>
       itinerary' = Null]_vars

(* C7: at most one generation request is in flight, and while one is the *)
(* form cannot submit                                                    *)
C7_OneRequestInFlight ==
  /\ pending <= 1
  /\ pending = 1 => loading /\ ~ENABLED HandleGenerate

(* A saved itinerary was opened and the session reset during the wait *)
C7_Witness ==
  /\ pending = 1
  /\ lastOp = "reset"
  /\ itinerary = Null

(* C8: a failure for missing credentials surfaces the configuration message, *)
(* every other failure the generic message                                   *)
C8_ErrorMessageByCause ==
  lastOp = "reject" =>
    IF ~apiKey
      THEN error = [message |-> ConfigPrefix \o MissingKeyMessage]
      ELSE error = [message |-> ErrorGenerate(language)]

(* C9: while an itinerary with at least one day is viewed, exactly one of *)
(* its days is current: the day with the selected number, or the first    *)
(* day when no day has that number                                        *)
C9_OneCurrentDay ==
  (itinerary # Null /\ Len(itinerary.days) > 0) =>
    LET days == itinerary.days
        cur == CurrentDay(itinerary, dayNumber)
    IN /\ Cardinality({i \in 1..Len(days) : days[i] = cur}) = 1
       /\ IF \E i \in 1..Len(days) : days[i].dayNumber = dayNumber
            THEN cur.dayNumber = dayNumber
            ELSE cur = days[1]

(* The selected number matches no day of the itinerary on screen *)
C9_Witness ==
  /\ itinerary # Null
  /\ Len(itinerary.days) > 0
  /\ \A i \in 1..Len(itinerary.days) : itinerary.days[i].dayNumber # dayNumber

(* C10: from the view of an itinerary with zero days the only step is the *)
(* reset, which returns the session to Forming                            *)
C10_EmptyItineraryOnlyReset ==
  [][(itinerary # Null /\ Len(itinerary.days) = 0) =>
       /\ lastOp' = "reset"
       /\ Forming']_vars

(* An itinerary with zero days is on screen *)
C10_Witness ==
  /\ itinerary # Null
  /\ Len(itinerary.days) = 0

(* Two characters that are the same letter, whatever their case *)
SameLetter(c, d) ==
  \/ c = d
  \/ \E k \in 1..26 : {c, d} = {UpperChars[k], LowerChars[k]}

(* q occurs in text, case ignored *)
ContainsIgnoringCase(text, q) ==
  \E i \in 0..(Len(text) - Len(q)) :
    \A j \in 1..Len(q) : SameLetter(text[i + j], q[j])

(* The activities of the current day the list shows, as positions in the day *)
VisibleSet ==
  LET list == VisibleList(itinerary, dayNumber, filters, searchQuery)
  IN {list[p] : p \in 1..Len(list)}

(* The activities of the current day that have a marker *)
MarkerSet ==
  {i \in 1..Len(Activities(itinerary, dayNumber)) :
     HasMarker(Activities(itinerary, dayNumber)[i], filters, searchQuery)}

(* C11: an activity of the current day is in the visible set of the list   *)
(* iff the filter of its type is on and the query is empty or occurs, case *)
(* ignored, in its place name or description; the list shows the visible   *)
(* activities in day order, each once; the markers are the visible         *)
(* activities that have coordinates; switching one type's filter off       *)
(* removes exactly the activities of that type from the visible set.       *)
C11_VisibleSet ==
  /\ [](ViewRendered(itinerary) =>
          LET acts == Activities(itinerary, dayNumber)
              list == VisibleList(itinerary, dayNumber, filters, searchQuery)
          IN /\ VisibleSet =
                  {i \in 1..Len(acts) :
                     /\ filters[acts[i].type]
                     /\ \/ searchQuery = <<>>
                        \/ ContainsIgnoringCase(acts[i].placeName, searchQuery)
                        \/ ContainsIgnoringCase(acts[i].description, searchQuery)}
             /\ \A p \in 1..(Len(list) - 1) : list[p] < list[p + 1]
             /\ MarkerSet = {i \in VisibleSet : acts[i].coordinates # Null})
  /\ [][\A k \in ActivityTypes :
          (lastOp' = "filter" /\ filters[k] /\ ~filters'[k]) =>
            VisibleSet' = {i \in VisibleSet :
                             Activities(itinerary, dayNumber)[i].type # k}]_vars

(* The LODGING filter was switched off under a query written in capitals: *)
(* the list shows the two activities that match in lower case, one of     *)
(* them without coordinates and hence without marker                      *)
C11_Witness ==
  /\ lastOp = "filter"
  /\ ViewRendered(itinerary)
  /\ searchQuery = <<"A","R">>
  /\ ~filters["LODGING"]
  /\ VisibleSet = {1, 2}
  /\ MarkerSet = {1}

(* C12: toggling a type filter or changing the search query changes neither *)
(* the active itinerary (days, activities, notes) nor the notes of the view *)
(* nor the saved history and its stored copy                                *)
C12_FilterIsViewOnly ==
  [][lastOp' \in {"filter", "search"} =>
       UNCHANGED <<itinerary, comments, savedItineraries, storage>>]_vars

(* A query that matches nothing was typed on a day that has activities, *)
(* in an itinerary that carries a note                                  *)
C12_Witness ==
  /\ lastOp = "search"
  /\ ViewRendered(itinerary)
  /\ searchQuery # <<>>
  /\ VisibleSet = {}
  /\ Len(Activities(itinerary, dayNumber)) > 0
  /\ itinerary.userComments.present
  /\ DOMAIN itinerary.userComments.map # {}
  /\ Len(savedItineraries) > 0

(* The key "day_<n>_<placeName>-<time>" written out, n a single digit *)
NoteKey(n, act) ==
  <<"d","a","y","_">> \o <<DigitChars[n + 1]>> \o <<"_">> \o act.placeName
    \o <<"-">> \o act.time

(* The step saved the note s for activity act of the day on display *)
NoteStep(act, s) ==
  /\ lastOp' = "note"
  /\ comments' = (NoteKey(dayNumber, act) :> s) @@ comments

(* The activities of the day on display *)
ShownActivities ==
  IF ViewRendered(itinerary)
    THEN {Activities(itinerary, dayNumber)[i] :
            i \in 1..Len(Activities(itinerary, dayNumber))}
    ELSE {}

(* C13: once a note s is saved for an activity of day d, the note read for *)
(* that activity whenever day d is selected is s, also after a switch to   *)
(* another day and back, until a note is saved under the same key: the     *)
(* save makes the note of (d, activity) equal to s, and no later step of   *)
(* the view other than a save under that key changes any note.             *)
C13_NoteRoundTrip ==
  [][/\ \A act \in ShownActivities, s \in NoteTexts :
          NoteStep(act, s) =>
            ReadComment(comments', CurrentDay(itinerary, dayNumber).dayNumber, act) = s
     /\ (itinerary # Null /\ itinerary' # Null) =>
          \A k \in DOMAIN comments :
            \/ k \in DOMAIN comments' /\ comments'[k] = comments[k]
            \/ \E act \in ShownActivities :
                 lastOp' = "note" /\ k = NoteKey(dayNumber, act)]_vars

(* C14: a note save performs one save of the active itinerary with the     *)
(* whole comment map, the former notes and the new one under the key       *)
(* day_<dayNumber>_<placeName>-<time>: right after, the front entry of the *)
(* history is the active itinerary and carries that map, the entries       *)
(* behind it are former entries, and the stored copy is the history.       *)
C14_NoteSaveIsFullSave ==
  [][lastOp' = "note" =>
       /\ \E act \in ShownActivities, s \in NoteTexts : NoteStep(act, s)
       /\ \A act \in ShownActivities, s \in NoteTexts :
            NoteStep(act, s) =>
              /\ Len(savedItineraries') >= 1
              /\ savedItineraries'[1].userComments =
                   UserComments((NoteKey(dayNumber, act) :> s) @@ comments)
              /\ savedItineraries'[1].userComments.map[NoteKey(dayNumber, act)] = s
              /\ savedItineraries'[1].title = itinerary.title
              /\ savedItineraries'[1].days = itinerary.days
              /\ itinerary' = savedItineraries'[1]
              /\ Len(savedItineraries') <= Len(savedItineraries) + 1
              /\ \A j \in 2..Len(savedItineraries') :
                   \E k \in 1..Len(savedItineraries) :
                     savedItineraries'[j] = savedItineraries[k]
              /\ storage' = JsonStringify(savedItineraries')]_vars

(* A second note was saved: the front entry, the only one, is the active *)
(* itinerary and carries both notes                                      *)
C14_Witness ==
  /\ lastOp = "note"
  /\ Len(savedItineraries) = 1
  /\ savedItineraries[1] = itinerary
  /\ Cardinality(DOMAIN savedItineraries[1].userComments.map) = 2

(* C15: while an itinerary is viewed, the comment map changes only in a   *)
(* note save; a note save sets the entry of one key and leaves every      *)
(* other entry as it was; no step removes an entry.                       *)
C15_NotesOnlyBySavePath ==
  [][(itinerary # Null /\ itinerary' # Null) =>
       /\ comments' # comments => lastOp' = "note"
       /\ DOMAIN comments \subseteq DOMAIN comments'
       /\ Cardinality({k \in DOMAIN comments' :
                         k \notin DOMAIN comments \/ comments'[k] # comments[k]}) <= 1]_vars

(* A note was saved next to a note of another text, which is still there *)
C15_Witness ==
  /\ lastOp = "note"
  /\ itinerary # Null
  /\ \E k1, k2 \in DOMAIN comments : comments[k1] # comments[k2]

(* The list entry that shows the activity with that index (from 0) of the *)
(* day is rendered expanded                                               *)
EntryExpanded(index) ==
  /\ ViewRendered(itinerary)
  /\ \E p \in 1..Len(VisibleList(itinerary, dayNumber, filters, searchQuery)) :
       /\ VisibleList(itinerary, dayNumber, filters, searchQuery)[p] = index + 1
       /\ (p - 1) \in expandedActivities

(* C16: selecting a marker, or 'view in list' in its popup, leaves the list *)
(* entry of that same activity expanded, whatever the filters and the query *)
(* (behind the map the expansion comes with the delayed call)               *)
C16_SelectionExpandsEntry ==
  [][\A index \in ActivityIndices :
       /\ MarkerClick(index) => EntryExpanded(index)'
       /\ (ViewInList(index) /\ ~isMapView) => EntryExpanded(index)'
       /\ \A t \in timers :
            (TimerFire(t) /\ t.kind = "click" /\ ~t.stale /\ t.index = index) =>
              EntryExpanded(index)']_vars

(* The same, for the 'view in list' button alone *)
C16_ViewInListExpandsEntry ==
  [][\A index \in ActivityIndices :
       (ViewInList(index) /\ ~isMapView) => EntryExpanded(index)']_vars

(* C20: 'view in list' chosen behind the expanded map switches to the list *)
(* pane in that step, without expanding or scrolling yet; the entry is     *)
(* expanded and scrolled to by the later, delayed call; a highlight is     *)
(* never on for more than 2 seconds (20 tenths) and the timeout that takes *)
(* it off does so 2 seconds after it was put on.                           *)
C20_SwitchThenHighlightTwoSeconds ==
  /\ [](\A h \in highlight : h.age <= 20)
  /\ [][/\ \A index \in ActivityIndices :
             (ViewInList(index) /\ isMapView) =>
               /\ ~isMapView'
               /\ UNCHANGED <<expandedActivities, scrolledTo, highlight>>
               /\ \E t \in timers' : t.kind = "click" /\ t.index = index
        /\ \A t \in timers :
             (TimerFire(t) /\ t.kind = "click" /\ ~t.stale) =>
               /\ t.index \in expandedActivities'
               /\ t.index < NodeCount => scrolledTo' = t.index
        /\ lastOp' = "unhighlight" =>
             \A h \in highlight :
               (\A g \in highlight' : g.pos # h.pos) => h.age = 20]_vars

(* The decimal numeral of a number below 1000, digit by digit *)
Numeral(n) ==
  IF n < 10 THEN <<DigitChars[n + 1]>>
  ELSE IF n < 100 THEN <<DigitChars[(n \div 10) + 1], DigitChars[(n % 10) + 1]>>
  ELSE <<DigitChars[(n \div 100) + 1], DigitChars[((n \div 10) % 10) + 1],
         DigitChars[(n % 10) + 1]>>

(* C19: at 60 km/h (one minute per kilometre, distance in tenths of a km) *)
(* the text is "<minutes> min" under one hour and "<hours>h <minutes>m"   *)
(* from one hour on, the minutes being the nearest whole number of        *)
(* minutes (of the part beyond the full hours); 30 km gives "30 min" and  *)
(* 90 km gives "1h 30m".                                                  *)
C19_TravelTimeFormat ==
  travelTime # <<>> =>
    /\ distance < 600 =>
         \E m \in 0..60 :
           /\ travelTime = Numeral(m) \o <<" ","m","i","n">>
           /\ 10 * m - distance \in -5..5
    /\ distance >= 600 =>
         \E h \in 1..(MaxDistance \div 600 + 1), m \in 0..60 :
           /\ travelTime = Numeral(h) \o <<"h"," ">> \o Numeral(m) \o <<"m">>
           /\ 600 * h <= distance
           /\ distance < 600 * (h + 1)
           /\ 10 * m - (distance - 600 * h) \in -5..5
    /\ distance = 300 => travelTime = <<"3","0"," ","m","i","n">>
    /\ distance = 900 => travelTime = <<"1","h"," ","3","0","m">>

(* 90 km was rendered *)
C19_Witness ==
  /\ lastOp = "estimate"
  /\ distance = 900
  /\ travelTime = <<"1","h"," ","3","0","m">>

(* Number of occurrences of a in the sequence *)
Count(a, seq) == Cardinality({i \in 1..Len(seq) : seq[i] = a})

(* The activities of the day on display before and after a step *)
RouteBefore == Activities(itinerary, dayNumber)

RouteAfter == Activities(itinerary', dayNumber)

(* C17: reordering the route of a day yields a permutation of the day's  *)
(* activities (each as often as before) that starts with the same first  *)
(* activity; a day of 2 or fewer activities is left as it is; the other  *)
(* days, their number and the rest of the itinerary are untouched.       *)
C17_ReorderIsAnchoredPermutation ==
  [][lastOp' = "reorder" =>
       /\ Len(RouteAfter) = Len(RouteBefore)
       /\ \A i \in 1..Len(RouteBefore) :
            Count(RouteBefore[i], RouteAfter) = Count(RouteBefore[i], RouteBefore)
       /\ Len(RouteBefore) >= 1 => RouteAfter[1] = RouteBefore[1]
       /\ Len(RouteBefore) <= 2 => RouteAfter = RouteBefore
       /\ Len(itinerary'.days) = Len(itinerary.days)
       /\ \A i \in 1..Len(itinerary.days) :
            /\ itinerary'.days[i].dayNumber = itinerary.days[i].dayNumber
            /\ i # CurrentDayIndex(itinerary, dayNumber) =>
                 itinerary'.days[i] = itinerary.days[i]
       /\ itinerary'.title = itinerary.title]_vars

(* The first day, of four activities, was reordered; the second day is *)
(* as it was generated                                                 *)
C17_Witness ==
  /\ lastOp = "reorder"
  /\ dayNumber = 1
  /\ Len(itinerary.days[1].activities) = 4
  /\ itinerary.days[2].activities = RouteDayTwo

(* Position of activity a in the day before the step *)
InputPosition(a) == CHOOSE i \in 1..Len(RouteBefore) : RouteBefore[i] = a

(* C18: in the result of reordering a day of 3 or more activities, every *)
(* activity with coordinates placed after the anchor is, among those     *)
(* placed at or behind its position, the one nearest to its predecessor, *)
(* and among the equally near the first of the input; activities without *)
(* coordinates come after all those with coordinates, in input order.    *)
C18_GreedyNearestNeighbour ==
  [][(lastOp' = "reorder" /\ Len(RouteBefore) >= 3) =>
       \A p \in 2..Len(RouteAfter) :
         \A q \in (p + 1)..Len(RouteAfter) :
           IF RouteAfter[p].coordinates # Null
             THEN RouteAfter[q].coordinates # Null =>
                    \/ DistanceFrom(RouteAfter[p - 1], RouteAfter[p])
                         < DistanceFrom(RouteAfter[p - 1], RouteAfter[q])
                    \/ /\ DistanceFrom(RouteAfter[p - 1], RouteAfter[p])
                            = DistanceFrom(RouteAfter[p - 1], RouteAfter[q])
                       /\ InputPosition(RouteAfter[p]) < InputPosition(RouteAfter[q])
             ELSE /\ RouteAfter[q].coordinates = Null
                  /\ InputPosition(RouteAfter[p]) < InputPosition(RouteAfter[q])]_vars

(* The second day was reordered: from Museo the equally near Bus and Hotel *)
(* are taken in input order, Mirador being nearest to Bus comes before     *)
(* Hotel, and Bar, without coordinates, comes last                         *)
C18_Witness ==
  /\ lastOp = "reorder"
  /\ dayNumber = 2
  /\ itinerary.days[2].activities = <<ActMuseo, ActBus, ActMirador, ActHotel, ActBar>>

(* C21: a step of the day navigation that changes the selected day number *)
(* leaves every expansion flag cleared: no list entry of the newly selected *)
(* day is rendered expanded after it.                                       *)
C21_DayChangeClearsExpansion ==
  [][(lastOp' = "day" /\ dayNumber' # dayNumber) =>
       /\ expandedActivities' = {}
       /\ \A index \in ActivityIndices : ~EntryExpanded(index)']_vars

(* Day 2 was selected right after 'view in list' had expanded and *)
(* highlighted an entry of day 1                                   *)
C21_Witness ==
  /\ lastOp = "day"
  /\ dayNumber = 2
  /\ \E h \in highlight : h.age = 0
  /\ expandedActivities = {}

(* The activities of the day on display that have coordinates, as *)
(* positions in the day                                           *)
LocatedSet ==
  {i \in 1..Len(Activities(itinerary, dayNumber)) :
     Activities(itinerary, dayNumber)[i].coordinates # Null}

(* C22: the route polyline runs through the coordinates of all activities *)
(* of the current day that have coordinates, in day order (no line for    *)
(* fewer than two), and a change of the type filters or of the query      *)
(* leaves it as it is; the markers are those of the activities with       *)
(* coordinates that pass the filters and the query.                       *)
C22_RouteIgnoresFilters ==
  /\ [](ViewRendered(itinerary) =>
          LET acts == Activities(itinerary, dayNumber)
          IN /\ Len(routeLayer) = IF Cardinality(LocatedSet) >= 2
                                     THEN Cardinality(LocatedSet) ELSE 0
             /\ \A p \in 1..Len(routeLayer) :
                  \E i \in LocatedSet :
                    /\ Cardinality({j \in LocatedSet : j < i}) = p - 1
                    /\ routeLayer[p] = <<acts[i].coordinates.lat, acts[i].coordinates.lng>>
             /\ DOMAIN markersLayer =
                  {i - 1 : i \in {j \in LocatedSet :
                                    /\ filters[acts[j].type]
                                    /\ \/ searchQuery = <<>>
                                       \/ ContainsIgnoringCase(acts[j].placeName, searchQuery)
                                       \/ ContainsIgnoringCase(acts[j].description,
                                                               searchQuery)}})
  /\ [][lastOp' \in {"filter", "search"} => routeLayer' = routeLayer]_vars

(* A filter was switched while a query hides all markers but one: the line *)
(* still runs through the five located activities of day 1                 *)
C22_Witness ==
  /\ lastOp = "filter"
  /\ searchQuery # <<>>
  /\ Len(routeLayer) = 5
  /\ Cardinality(DOMAIN markersLayer) = 1
  /\ \E k \in ActivityTypes : ~filters[k]

(* The bounding region of the activities at the positions in set *)
RegionOf(set) ==
  LET acts == Activities(itinerary, dayNumber)
  IN [bounds |->
        [south |-> CHOOSE x \in {acts[i].coordinates.lat : i \in set} :
                     \A i \in set : x <= acts[i].coordinates.lat,
         north |-> CHOOSE x \in {acts[i].coordinates.lat : i \in set} :
                     \A i \in set : x >= acts[i].coordinates.lat,
         west |-> CHOOSE x \in {acts[i].coordinates.lng : i \in set} :
                    \A i \in set : x <= acts[i].coordinates.lng,
         east |-> CHOOSE x \in {acts[i].coordinates.lng : i \in set} :
                    \A i \in set : x >= acts[i].coordinates.lng]]

(* C23: while a day is on display the map is framed on the bounding region *)
(* of the markers when there is a marker; without markers and with an      *)
(* empty query on the region of all activities that have coordinates; and  *)
(* on the regional view (40.345, -1.106, zoom 9) when no activity of the   *)
(* day has coordinates.                                                    *)
C23_MapFraming ==
  ViewRendered(itinerary) =>
    /\ MarkerSet # {} => mapFrame = RegionOf(MarkerSet)
    /\ (MarkerSet = {} /\ LocatedSet # {} /\ searchQuery = <<>>) =>
         mapFrame = RegionOf(LocatedSet)
    /\ LocatedSet = {} => mapFrame = [center |-> <<40345, -1106>>, zoom |-> 9]

(* The filters hide every marker of day 1 and nothing is searched: the map *)
(* shows the region of all its located activities, from Hotel to Bus       *)
C23_Witness ==
  /\ lastOp = "filter"
  /\ ViewRendered(itinerary)
  /\ dayNumber = 1
  /\ MarkerSet = {}
  /\ searchQuery = <<>>
  /\ mapFrame = [bounds |-> [south |-> 39000, north |-> 41000, west |-> 1000, east |-> 1000]]

(* Distance, in tenths of a kilometre, between the activities at positions *)
(* j and i of the day on display, both with coordinates                    *)
LegLength(j, i) ==
  LET acts == Activities(itinerary, dayNumber)
  IN (111195 * Abs(acts[i].coordinates.lat - acts[j].coordinates.lat) + 50000) \div 100000

(* The popup of the marker at position i displays travel time and transport *)
(* details as they are backfilled over a leg of the length d                *)
BackfilledOver(i, d) ==
  LET act == Activities(itinerary, dayNumber)[i]
      shown == markersLayer[i - 1]
  IN /\ act.travelTime = <<>> =>
          \E halfUp \in BOOLEAN : shown.travelTime = EstimateTravelTime(d, halfUp)
     /\ act.travelTime # <<>> => shown.travelTime = act.travelTime
     /\ act.transportDetails = <<>> =>
          shown.transportDetails =
            IF d < 20 THEN <<"C","a","m","i","n","a","r"," ","/"," ","W","a","l","k">>
            ELSE <<"C","o","c","h","e"," ","/"," ","C","a","r"," ","/"," ","B","u","s">>
     /\ act.transportDetails # <<>> => shown.transportDetails = act.transportDetails

(* The popup of the marker at position i displays what the activity states, *)
(* blank for what it does not state                                         *)
NotBackfilled(i) ==
  /\ markersLayer[i - 1].travelTime = Activities(itinerary, dayNumber)[i].travelTime
  /\ markersLayer[i - 1].transportDetails =
       Activities(itinerary, dayNumber)[i].transportDetails

(* The TRAVEL activities of the day on display that have a marker *)
TravelMarkers ==
  {i \in MarkerSet : Activities(itinerary, dayNumber)[i].type = "TRAVEL"}

C25_NotesBelongToActiveItinerary ==
  itinerary # Null =>
    comments = IF itinerary.userComments.present THEN itinerary.userComments.map ELSE <<>>

(* C26: a note save writes the note under the key that carries the        *)
(* dayNumber of the day on display (the first day when the selected number *)
(* matches no day) and the place name and time of the annotated activity.  *)
C26_NoteKeyNamesDisplayedDay ==
  [][lastOp' = "note" =>
       \E act \in ShownActivities, s \in NoteTexts :
         comments' =
           (NoteKey(CurrentDay(itinerary, dayNumber).dayNumber, act) :> s) @@ comments]_vars

(* C27: over a step that toggles a type filter or changes the query, no  *)
(* activity of the day becomes expanded that was not, and an activity that *)
(* was expanded and is still in the list is still expanded.                *)
C27_ExpansionFollowsActivity ==
  [][lastOp' \in {"filter", "search"} =>
       \A index \in ActivityIndices :
         /\ EntryExpanded(index)' => EntryExpanded(index)
         /\ (EntryExpanded(index) /\ (index + 1) \in VisibleSet') =>
              EntryExpanded(index)']_vars

(* A step of the save button or of a note save *)
AnySaveStep ==
  /\ lastOp' \in {"save", "note"}
  /\ itinerary # Null

(* C28: after every save the active itinerary carries a timestamp and is  *)
(* the front entry of the history; a save of an itinerary without         *)
(* timestamp adds at most one entry; a save of an itinerary that carries  *)
(* a timestamp adds none, and when the itinerary is the front entry (as   *)
(* after a save) it replaces that entry and leaves the others as they     *)
(* are. Consecutive saves of one itinerary thus add at most one entry.    *)
C28_RepeatedSavesAddOneEntry ==
  [][AnySaveStep =>
       /\ itinerary'.timestamp # 0
       /\ Len(savedItineraries') >= 1
       /\ itinerary' = savedItineraries'[1]
       /\ Len(savedItineraries') <= Len(savedItineraries) + 1
       /\ itinerary.timestamp # 0 =>
            /\ Len(savedItineraries') = Len(savedItineraries)
            /\ itinerary'.timestamp = itinerary.timestamp
       /\ (itinerary.timestamp # 0 /\ Len(savedItineraries) >= 1
             /\ itinerary = savedItineraries[1]) =>
            \A j \in 2..Len(savedItineraries) :
              savedItineraries'[j] = savedItineraries[j]]_vars

(* A note was saved into an itinerary that had been saved at an earlier *)
(* time: the history still has the one entry, which now holds the note  *)
C28_Witness ==
  /\ lastOp = "note"
  /\ Len(savedItineraries) = 1
  /\ itinerary = savedItineraries[1]
  /\ itinerary.timestamp < now
  /\ DOMAIN itinerary.userComments.map # {}

(* C29: a request that settles clears the loading flag in that step,   *)
(* whether it resolves or rejects and whatever was opened, saved or      *)
(* reset since the submit; with no request outstanding the flag is off,  *)
(* so that the submit button of the form is enabled; and, requests       *)
(* settling, a loading flag that is on is eventually off.                *)
C29_LoadingEventuallyCleared ==
  /\ [](pending = 0 => ~loading)
  /\ [][lastOp' \in {"resolve", "reject"} => ~loading']_vars
  /\ [](itinerary = Null /\ pending = 0 => ENABLED HandleGenerate)
  /\ loading ~> ~loading

(* A request failed while a saved itinerary, opened during the wait, was *)
(* on screen                                                             *)
C29_Witness ==
  /\ lastOp = "reject"
  /\ itinerary # Null
  /\ pending = 0
  /\ ~loading

(* C30: the minutes of the rendered travel time lie in 0..59: the text is *)
(* "<m> min" or "<h>h <m>m" with m at most 59, for every distance.        *)
C30_MinutesBelowSixty ==
  travelTime # <<>> =>
    \/ \E m \in 0..59 : travelTime = Numeral(m) \o <<" ","m","i","n">>
    \/ \E h \in 1..(MaxDistance \div 600 + 1), m \in 0..59 :
         travelTime = Numeral(h) \o <<"h"," ">> \o Numeral(m) \o <<"m">>

====
